---- MODULE Spec2Model ----
(***************************************************************************)
(* Model of the flyingsphere arcade game.                                  *)
(*                                                                         *)
(* Main game (src/game.js): a three.js scene driven by animate(), one call *)
(* per animation frame, and handleInput(), one call per mousedown or       *)
(* touchstart.  JavaScript runs each callback to completion, so each is    *)
(* one atomic action.                                                      *)
(*                                                                         *)
(* Canvas variant (src/unnamed/part_000): a 2D-canvas game behind a        *)
(* username-gated intro screen.                                            *)
(*                                                                         *)
(* Units.  Lengths are in 1/1000 of a world unit, times in milliseconds,   *)
(* the seed's velocity in 1/1000 world unit per frame, angles in 1/1000    *)
(* radian.  The canvas variant's pixels are in half pixels (its gravity is *)
(* 1.5 px per frame).                                                      *)
(***************************************************************************)
EXTENDS Integers, Sequences, FiniteSets

(***************************************************************************)
(* Bounds of the exploration.                                              *)
(***************************************************************************)
\* number of input events (mousedown / touchstart) explored
MaxInputs == 3
\* how many of them may arrive while the game is running
MaxSurges == 1

(***************************************************************************)
(* Program constants of src/game.js.                                       *)
(***************************************************************************)
viewHeight == 16000
viewWidth == (viewHeight * 9) \div 16
seedRadius == 500
seedX == 0 - (viewWidth \div 3)
gravity == 15
surgeStrength == 450
seedMinY == (0 - (viewHeight \div 2)) + seedRadius
seedMaxY == (viewHeight \div 2) - seedRadius
obstacleWidth == 1500
obstacleMinGap == 4000
obstacleMaxGap == 5500
obstacleSpawnX == (viewWidth \div 2) + obstacleWidth
obstacleDespawnX == (0 - (viewWidth \div 2)) - obstacleWidth
obstacleSpeed == 3
spawnInterval == 2000

\* clock.getDelta(): the time since the previous frame, in ms.  A run has
\* one frame period: four frames a second, or one frame every four seconds
\* (a page that is mostly in the background), at which a pair crosses the
\* seed's column within a single frame.
DeltaTimes == {250, 4000}

\* THREE.MathUtils.randFloat(obstacleMinGap, obstacleMaxGap): both ends
GapHeights == {obstacleMinGap, obstacleMaxGap}

\* THREE.MathUtils.randFloat(low, high) for the gap centre: the two ends of
\* the range and its middle
GapCenters(gapHeight) ==
  { (0 - (viewHeight \div 2)) + (gapHeight \div 2) + 1000,
    0,
    (viewHeight \div 2) - (gapHeight \div 2) - 1000 }

Abs(n) == IF n < 0 THEN 0 - n ELSE n

(***************************************************************************)
(* Fixed-point sine and cosine.  The argument is in 1/1000 rad, the result *)
(* in 1/10000.  Used for the seed's rotation matrix only.                  *)
(***************************************************************************)
\* sine of x/10000 rad for 0 <= x <= 15708 (a quarter turn), by its Taylor
\* series
SinQ(x) ==
  LET x2 == (x * x) \div 10000
      t3 == ((x * x2) \div 10000) \div 6
      t5 == ((t3 * x2) \div 10000) \div 20
      t7 == ((t5 * x2) \div 10000) \div 42
      t9 == ((t7 * x2) \div 10000) \div 72
  IN  x - t3 + t5 - t7 + t9
\* sine of r/10000 rad for 0 <= r < 62832 (a full turn)
SinR(r) ==
  IF r <= 15708 THEN SinQ(r)
  ELSE IF r <= 31416 THEN SinQ(31416 - r)
  ELSE IF r <= 47124 THEN 0 - SinQ(r - 31416)
  ELSE 0 - SinQ(62832 - r)
Sin(a) == SinR((a * 10) % 62832)
Cos(a) == SinR(((a * 10) + 15708) % 62832)

(***************************************************************************)
(* State of the main game.                                                 *)
(***************************************************************************)
VARIABLES
  seedY,                  \* seed.position.y
  seedVelocityY,
  rotationX, rotationY,   \* seed.rotation.x, seed.rotation.y
  seedVisible,            \* seed.visible
  gameStarted, gameOver, score,
  obstacles,              \* the obstacles array, in push order
  timeSinceLastSpawn,
  scoreText,              \* the number shown by scoreElement
  startMessageDisplay,    \* startMessage.style.display
  gameOverMessageDisplay, \* gameOverMessage.style.display
  spawned,                \* pairs pushed since the last resetGame
  inputs,                 \* input events delivered so far
  surges,                 \* those delivered while the game was running
  framePeriod             \* what clock.getDelta() returns in this run

(***************************************************************************)
(* State of the canvas variant.                                            *)
(***************************************************************************)
VARIABLES
  usernameValue,          \* usernameInput.value
  username, running, y, vy, canvasScore,
  introDisplay,           \* introScreen.style.display
  containerDisplay,       \* gameContainer.style.display
  loops,                  \* gameLoop chains kept alive by requestAnimationFrame
  lastEvent               \* the callback that ran last

gameVars == <<seedY, seedVelocityY, rotationX, rotationY, seedVisible,
              gameStarted, gameOver, score, obstacles, timeSinceLastSpawn,
              scoreText, startMessageDisplay, gameOverMessageDisplay,
              spawned, inputs, surges, framePeriod>>
canvasVars == <<usernameValue, username, running, y, vy, canvasScore,
                introDisplay, containerDisplay, loops, lastEvent>>
vars == <<gameVars, canvasVars>>

(***************************************************************************)
(* Bounding boxes (THREE.Box3) and their intersection test.                *)
(***************************************************************************)
Box(cx, cy, hx, hy, hz) ==
  [minX |-> cx - hx, maxX |-> cx + hx,
   minY |-> cy - hy, maxY |-> cy + hy,
   minZ |-> 0 - hz,  maxZ |-> hz]

\* Box3.intersectsBox: boxes that only touch do intersect
intersectsBox(a, b) ==
  ~ ( b.maxX < a.minX \/ b.minX > a.maxX
   \/ b.maxY < a.minY \/ b.minY > a.maxY
   \/ b.maxZ < a.minZ \/ b.minZ > a.maxZ )

\* Half-extents of seedBox: the geometry's box (a cube of half-side
\* seedRadius) taken through seed.matrixWorld, which holds the seed's
\* rotation (Euler order XYZ, rotation.z = 0) and position.  applyMatrix4
\* maps the eight corners and takes their axis-aligned hull, so the
\* half-extent along a world axis is seedRadius times the sum of the absolute
\* values of that row of the rotation matrix
\*     [  cy       0     sy    ]
\*     [  sx sy    cx   -sx cy ]
\*     [ -cx sy    sx    cx cy ]
seedHalfX(rx, ry) == (seedRadius * (Abs(Cos(ry)) + Abs(Sin(ry)))) \div 10000
seedHalfY(rx, ry) ==
  (seedRadius * ( Abs((Sin(rx) * Sin(ry)) \div 10000) + Abs(Cos(rx))
                + Abs((Sin(rx) * Cos(ry)) \div 10000) )) \div 10000
seedHalfZ(rx, ry) ==
  (seedRadius * ( Abs((Cos(rx) * Sin(ry)) \div 10000) + Abs(Sin(rx))
                + Abs((Cos(rx) * Cos(ry)) \div 10000) )) \div 10000

seedBoxAt(sy, rx, ry) ==
  Box(seedX, sy, seedHalfX(rx, ry), seedHalfY(rx, ry), seedHalfZ(rx, ry))

topBox(o) ==
  Box(o.topX, o.topY, obstacleWidth \div 2, o.topHeight \div 2,
      obstacleWidth \div 2)
bottomBox(o) ==
  Box(o.bottomX, o.bottomY, obstacleWidth \div 2, o.bottomHeight \div 2,
      obstacleWidth \div 2)

\* checkCollisions(), on the obstacles list obs with the seed's world matrix
\* at height sy and rotation (rx, ry)
checkCollisions(obs, sy, rx, ry) ==
  \E seedBox \in { seedBoxAt(sy, rx, ry) } :
    \E i \in 1..Len(obs) :
       \/ intersectsBox(seedBox, topBox(obs[i]))
       \/ intersectsBox(seedBox, bottomBox(obs[i]))

(***************************************************************************)
(* createObstacle(): the list after the call, for the two random draws.    *)
(***************************************************************************)
createObstacleTopAtEdge(obs, gapHeight, gapCenterY, id) ==
  LET topHeight == (viewHeight \div 2) - (gapCenterY + (gapHeight \div 2))
      bottomHeight == (viewHeight \div 2) + (gapCenterY - (gapHeight \div 2))
  IN  IF topHeight <= 0 \/ bottomHeight <= 0
      THEN obs
      ELSE Append(obs,
             [ id |-> id,
               topX |-> obstacleSpawnX,
               topY |-> gapCenterY + (gapHeight \div 2),
               topHeight |-> topHeight,
               bottomX |-> obstacleSpawnX,
               bottomY |-> gapCenterY - (gapHeight \div 2)
                             - (bottomHeight \div 2),
               bottomHeight |-> bottomHeight,
               passed |-> FALSE ])
createObstacle(obs, gapHeight, gapCenterY, id) ==
  LET topHeight == (viewHeight \div 2) - (gapCenterY + (gapHeight \div 2))
      bottomHeight == (viewHeight \div 2) + (gapCenterY - (gapHeight \div 2))
  IN  IF topHeight <= 0 \/ bottomHeight <= 0
      THEN obs
      ELSE Append(obs,
             [ id |-> id,
               topX |-> obstacleSpawnX,
               topY |-> gapCenterY + (gapHeight \div 2) + (topHeight \div 2),
               topHeight |-> topHeight,
               bottomX |-> obstacleSpawnX,
               bottomY |-> gapCenterY - (gapHeight \div 2)
                             - (bottomHeight \div 2),
               bottomHeight |-> bottomHeight,
               passed |-> FALSE ])

(***************************************************************************)
(* The movement, scoring and cleanup loop of animate(), from index i down  *)
(* to 1.  The result is the list and the score after the loop.             *)
(***************************************************************************)
\* the scoring test and the cleanup test on a pair's x after it has moved
passedNowOrLevel(x) == seedX >= x
passedNow(x) == seedX > x
despawnDueOrLevel(x) == x <= obstacleDespawnX
despawnDue(x) == x < obstacleDespawnX

\* the upward boost handleInput gives a seed of velocity v
surgeAdded(v) == v + surgeStrength
surge(v) == surgeStrength

RECURSIVE moveLoop(_, _, _, _)
moveLoop(obs, i, sc, deltaTime) ==
  IF i < 1 THEN [obstacles |-> obs, score |-> sc]
  ELSE
    LET moveAmount == obstacleSpeed * deltaTime
        o1 == [obs[i] EXCEPT !.topX = @ - moveAmount,
                             !.bottomX = @ - moveAmount]
        scored == ~o1.passed /\ passedNow(o1.topX)
        o2 == IF scored THEN [o1 EXCEPT !.passed = TRUE] ELSE o1
        sc2 == IF scored THEN sc + 1 ELSE sc
        obs2 == IF despawnDue(o2.topX)
                THEN SubSeq(obs, 1, i - 1) \o SubSeq(obs, i + 1, Len(obs))
                ELSE [obs EXCEPT ![i] = o2]
    IN  moveLoop(obs2, i - 1, sc2, deltaTime)

(***************************************************************************)
(* resetGame()                                                             *)
(***************************************************************************)
\* resetGame() without the line that hides the game-over message
resetGameKeepsMessage ==
  /\ seedY' = 0
  /\ seedVelocityY' = 0
  /\ seedVisible' = TRUE
  /\ score' = 0
  /\ scoreText' = 0
  /\ gameOver' = FALSE
  /\ gameStarted' = FALSE
  /\ timeSinceLastSpawn' = spawnInterval
  /\ obstacles' = << >>
  /\ spawned' = 0
  /\ gameOverMessageDisplay' = gameOverMessageDisplay
  /\ startMessageDisplay' = "block"
  /\ UNCHANGED <<rotationX, rotationY>>

\* resetGame() without "gameStarted = false"
resetGameKeepsStarted ==
  /\ seedY' = 0
  /\ seedVelocityY' = 0
  /\ seedVisible' = TRUE
  /\ score' = 0
  /\ scoreText' = 0
  /\ gameOver' = FALSE
  /\ gameStarted' = gameStarted
  /\ timeSinceLastSpawn' = spawnInterval
  /\ obstacles' = << >>
  /\ spawned' = 0
  /\ gameOverMessageDisplay' = "none"
  /\ startMessageDisplay' = "block"
  /\ UNCHANGED <<rotationX, rotationY>>

resetGame ==
  /\ seedY' = 0
  /\ seedVelocityY' = 0
  /\ seedVisible' = TRUE
  /\ score' = 0
  /\ scoreText' = 0
  /\ gameOver' = FALSE
  /\ gameStarted' = FALSE
  /\ timeSinceLastSpawn' = spawnInterval
  /\ obstacles' = << >>
  /\ spawned' = 0
  /\ gameOverMessageDisplay' = "none"
  /\ startMessageDisplay' = "block"
  /\ UNCHANGED <<rotationX, rotationY>>

(***************************************************************************)
(* handleInput(), the handler of mousedown and of touchstart.              *)
(***************************************************************************)
\* handleInput() without the return after resetGame()
handleInputNoReturn ==
  /\ inputs < MaxInputs
  /\ (gameStarted /\ ~gameOver) => surges < MaxSurges
  /\ inputs' = inputs + 1
  /\ surges' = IF gameStarted /\ ~gameOver THEN surges + 1 ELSE surges
  /\ UNCHANGED framePeriod
  /\ IF gameOver
     THEN /\ seedY' = 0
          /\ seedVisible' = TRUE
          /\ score' = 0
          /\ scoreText' = 0
          /\ gameOver' = FALSE
          /\ timeSinceLastSpawn' = spawnInterval
          /\ obstacles' = << >>
          /\ spawned' = 0
          /\ gameOverMessageDisplay' = "none"
          /\ gameStarted' = TRUE
          /\ startMessageDisplay' = "none"
          /\ seedVelocityY' = surgeStrength
          /\ UNCHANGED <<rotationX, rotationY>>
     ELSE /\ gameStarted' = TRUE
          /\ startMessageDisplay' =
               IF ~gameStarted THEN "none" ELSE startMessageDisplay
          /\ seedVelocityY' = surge(seedVelocityY)
          /\ UNCHANGED <<seedY, rotationX, rotationY, seedVisible, gameOver,
                         score, obstacles, timeSinceLastSpawn, scoreText,
                         gameOverMessageDisplay, spawned>>
  /\ UNCHANGED canvasVars

handleInput ==
  /\ inputs < MaxInputs
  /\ (gameStarted /\ ~gameOver) => surges < MaxSurges
  /\ inputs' = inputs + 1
  /\ surges' = IF gameStarted /\ ~gameOver THEN surges + 1 ELSE surges
  /\ UNCHANGED framePeriod
  /\ IF gameOver
     THEN resetGame
     ELSE /\ gameStarted' = TRUE
          /\ startMessageDisplay' =
               IF ~gameStarted THEN "none" ELSE startMessageDisplay
          /\ seedVelocityY' = surge(seedVelocityY)
          /\ UNCHANGED <<seedY, rotationX, rotationY, seedVisible, gameOver,
                         score, obstacles, timeSinceLastSpawn, scoreText,
                         gameOverMessageDisplay, spawned>>
  /\ UNCHANGED canvasVars

(***************************************************************************)
(* animate(): one frame.  deltaTime is clock.getDelta(); gapHeight and     *)
(* gapCenterY are the random draws of createObstacle, used if it is called.*)
(***************************************************************************)
\* the seed after the physics step: velocity, then position
physicsVelocity(v) == v - gravity
physicsYBeforeGravity(sy, v) == sy + v
physicsY(sy, v) == sy + physicsVelocity(v)

\* the boundary checks on the position after the physics step
belowMin(y1) == y1 < seedMinY
aboveMax(y1) == y1 > seedMaxY
boundaryHit(y1) == belowMin(y1) \/ aboveMax(y1)
clampYBelowOnly(y1) == IF belowMin(y1) THEN seedMinY ELSE y1
clampY(y1) == IF belowMin(y1) THEN seedMinY
              ELSE IF aboveMax(y1) THEN seedMaxY ELSE y1

\* the spawn test on the timer after deltaTime was added
spawnDueStrict(t1) == t1 > spawnInterval
spawnDue(t1) == t1 >= spawnInterval

\* The running branch of animate().  Each value the code computes on the way
\* is bound once, in the order of the code: the seed after the physics step,
\* the timer, the list after the spawn, the list and the score after the
\* loop, and the game-over verdict.
animateRunning(deltaTime, gapHeight, gapCenterY) ==
  \E v1 \in { physicsVelocity(seedVelocityY) },
     y1 \in { physicsY(seedY, seedVelocityY) },
     t1 \in { timeSinceLastSpawn + deltaTime } :
  \E obs1 \in { IF spawnDue(t1)
                 THEN createObstacle(obstacles, gapHeight, gapCenterY,
                                     spawned + 1)
                 ELSE obstacles } :
  \E loop \in { moveLoop(obs1, Len(obs1), score, deltaTime) } :
  \E over \in { boundaryHit(y1)
                   \/ checkCollisions(loop.obstacles, y1,
                                      rotationX, rotationY) } :
      /\ seedVelocityY' = IF boundaryHit(y1) THEN 0 ELSE v1
      /\ seedY' = clampY(y1)
      /\ timeSinceLastSpawn' = IF spawnDue(t1) THEN 0 ELSE t1
      /\ spawned' = spawned + (Len(obs1) - Len(obstacles))
      /\ obstacles' = loop.obstacles
      /\ score' = loop.score
      /\ scoreText' = IF loop.score # score THEN loop.score ELSE scoreText
      /\ gameOver' = over
      /\ gameOverMessageDisplay' =
           IF over THEN "block" ELSE gameOverMessageDisplay
      /\ seedVisible' = (~over /\ seedVisible)
      /\ rotationY' = IF ~over /\ seedVisible
                      THEN rotationY + (deltaTime \div 2) ELSE rotationY
      /\ rotationX' = IF ~over /\ seedVisible
                      THEN rotationX + ((3 * deltaTime) \div 10)
                      ELSE rotationX
      /\ UNCHANGED <<gameStarted, startMessageDisplay>>

\* animate() with the running branch guarded by gameStarted alone
animateIgnoringGameOver(deltaTime, gapHeight, gapCenterY) ==
  /\ IF gameStarted
     THEN animateRunning(deltaTime, gapHeight, gapCenterY)
     ELSE /\ startMessageDisplay' = "block"
          /\ UNCHANGED <<seedY, seedVelocityY, rotationX, rotationY,
                         seedVisible, gameStarted, gameOver, score, obstacles,
                         timeSinceLastSpawn, scoreText,
                         gameOverMessageDisplay, spawned>>
  /\ UNCHANGED <<inputs, surges, framePeriod, canvasVars>>

animate(deltaTime, gapHeight, gapCenterY) ==
  /\ IF gameStarted /\ ~gameOver
     THEN animateRunning(deltaTime, gapHeight, gapCenterY)
     ELSE IF gameOver
     THEN /\ gameOverMessageDisplay' = "block"
          /\ seedVisible' = FALSE
          /\ UNCHANGED <<seedY, seedVelocityY, rotationX, rotationY,
                         gameStarted, gameOver, score, obstacles,
                         timeSinceLastSpawn, scoreText, startMessageDisplay,
                         spawned>>
     ELSE /\ startMessageDisplay' = "block"
          /\ UNCHANGED <<seedY, seedVelocityY, rotationX, rotationY,
                         seedVisible, gameStarted, gameOver, score, obstacles,
                         timeSinceLastSpawn, scoreText,
                         gameOverMessageDisplay, spawned>>
  /\ UNCHANGED <<inputs, surges, framePeriod, canvasVars>>

\* The random draws matter only in a frame that calls createObstacle.
Frame ==
  IF gameStarted /\ ~gameOver /\ spawnDue(timeSinceLastSpawn + framePeriod)
  THEN \E gapHeight \in GapHeights :
         \E gapCenterY \in GapCenters(gapHeight) :
           animate(framePeriod, gapHeight, gapCenterY)
  ELSE animate(framePeriod, obstacleMinGap, 0)

(***************************************************************************)
(* The canvas variant.  A string is a sequence of characters.              *)
(***************************************************************************)
\* longest content of the username field explored
MaxNameLen == 3
Chars == {" ", "a"}
RECURSIVE SeqsUpTo(_)
SeqsUpTo(n) ==
  IF n = 0 THEN { << >> }
  ELSE SeqsUpTo(n - 1)
       \cup { Append(q, c) : q \in { r \in SeqsUpTo(n - 1) : Len(r) = n - 1 },
                              c \in Chars }
Names == SeqsUpTo(MaxNameLen)
KeyCodes == {"Space", "KeyA"}

canvasStartY == 1600
canvasFloor == 1920
canvasGravity == 3
jumpVelocity == 0 - 50

\* String.prototype.trim
RECURSIVE trimStart(_)
trimStart(str) ==
  IF str # << >> /\ Head(str) = " " THEN trimStart(Tail(str)) ELSE str
RECURSIVE trimEnd(_)
trimEnd(str) ==
  IF str # << >> /\ str[Len(str)] = " "
  THEN trimEnd(SubSeq(str, 1, Len(str) - 1)) ELSE str
trimNothing(str) == str
trim(str) == trimEnd(trimStart(str))

\* the user edits the username field, which is part of the intro screen
typeUsername(str) ==
  /\ introDisplay # "none"
  /\ usernameValue' = str
  /\ lastEvent' = "input"
  /\ UNCHANGED <<username, running, y, vy, canvasScore, introDisplay,
                 containerDisplay, loops>>
  /\ UNCHANGED gameVars

\* the physics step of gameLoop: the height and the velocity after it
loopVy(v) == v + canvasGravity
loopY(h, v) == IF h + loopVy(v) > canvasFloor THEN canvasFloor
               ELSE h + loopVy(v)
loopVyClamped(h, v) == IF h + loopVy(v) > canvasFloor THEN 0 ELSE loopVy(v)

\* the username gate of the click handler
gateOpen(name) == name # << >>

\* the click handler of the start button, which is part of the intro screen;
\* it calls gameLoop(), whose first pass runs inside the handler
clickStart ==
  /\ introDisplay # "none"
  /\ username' = trim(usernameValue)
  /\ lastEvent' = "click"
  /\ IF ~gateOpen(trim(usernameValue))
     THEN UNCHANGED <<running, y, vy, introDisplay, containerDisplay, loops>>
     ELSE /\ introDisplay' = "none"
          /\ containerDisplay' = "block"
          /\ running' = TRUE
          /\ vy' = loopVyClamped(y, vy)
          /\ y' = loopY(y, vy)
          /\ loops' = loops + 1
  /\ UNCHANGED <<usernameValue, canvasScore>>
  /\ UNCHANGED gameVars

\* gameLoop() as the requestAnimationFrame callback
gameLoop ==
  /\ loops > 0
  /\ lastEvent' = "frame"
  /\ IF ~running
     THEN /\ loops' = loops - 1
          /\ UNCHANGED <<y, vy>>
     ELSE /\ vy' = loopVyClamped(y, vy)
          /\ y' = loopY(y, vy)
          /\ UNCHANGED loops
  /\ UNCHANGED <<usernameValue, username, running, canvasScore,
                 introDisplay, containerDisplay>>
  /\ UNCHANGED gameVars

\* whether the keydown handler applies the jump
jumpAllowedAnywhere(code, h) == code = "Space"
jumpAllowed(code, h) == code = "Space" /\ h >= canvasFloor

\* the keydown handler
keyDown(code) ==
  /\ lastEvent' = IF code = "Space" THEN "space" ELSE "key"
  /\ vy' = IF jumpAllowed(code, y) THEN jumpVelocity ELSE vy
  /\ UNCHANGED <<usernameValue, username, running, y, canvasScore,
                 introDisplay, containerDisplay, loops>>
  /\ UNCHANGED gameVars

TypeUsername == \E str \in Names : typeUsername(str)
KeyDown == \E code \in KeyCodes : keyDown(code)

(***************************************************************************)
(* The state after the script has run: the declarations, then resetGame()  *)
(* and the first animate().                                                *)
(***************************************************************************)
GameInit ==
  /\ seedY = 0
  /\ seedVelocityY = 0
  /\ rotationX = 0
  /\ rotationY = 0
  /\ seedVisible = TRUE
  /\ gameStarted = FALSE
  /\ gameOver = FALSE
  /\ score = 0
  /\ scoreText = 0
  /\ obstacles = << >>
  /\ timeSinceLastSpawn = spawnInterval
  /\ startMessageDisplay = "block"
  /\ gameOverMessageDisplay = "none"
  /\ spawned = 0
  /\ inputs = 0
  /\ surges = 0
  /\ framePeriod \in DeltaTimes

CanvasInit ==
  /\ usernameValue = << >>
  /\ username = << >>
  /\ running = FALSE
  /\ y = canvasStartY
  /\ vy = 0
  /\ canvasScore = 0
  /\ introDisplay = "block"
  /\ containerDisplay = "none"
  /\ loops = 0
  /\ lastEvent = "load"

Init == GameInit /\ CanvasInit

Next == handleInput \/ Frame

Spec == Init /\ [][Next]_vars

\* animate() re-arms itself with requestAnimationFrame in every call, so
\* frames keep coming
LiveSpec == Spec /\ WF_vars(Frame)

CanvasNext == TypeUsername \/ clickStart \/ gameLoop \/ KeyDown

CanvasSpec == Init /\ [][CanvasNext]_vars

(***************************************************************************)
(* createObstacle() on its own, over a finer grid of the two random draws: *)
(* gap heights every 0.1 from obstacleMinGap to obstacleMaxGap, gap        *)
(* centres every 0.25 from the low end of their range, and the high end.   *)
(***************************************************************************)
GapHeightGrid == { obstacleMinGap + 100 * k : k \in 0..15 }

GapCenterGrid(gapHeight) ==
  LET low == (0 - (viewHeight \div 2)) + (gapHeight \div 2) + 1000
      high == (viewHeight \div 2) - (gapHeight \div 2) - 1000
  IN  { c \in { low + 250 * k : k \in 0..40 } : c <= high } \cup { high }

\* one call of createObstacle() on the list resetGame leaves behind
CreateObstacle ==
  /\ obstacles = << >>
  /\ \E gapHeight \in GapHeightGrid :
       \E gapCenterY \in GapCenterGrid(gapHeight) :
         /\ obstacles' = createObstacle(obstacles, gapHeight, gapCenterY,
                                        spawned + 1)
         /\ spawned' = spawned + 1
  /\ UNCHANGED <<seedY, seedVelocityY, rotationX, rotationY, seedVisible,
                 gameStarted, gameOver, score, timeSinceLastSpawn, scoreText,
                 startMessageDisplay, gameOverMessageDisplay, inputs, surges,
                 framePeriod>>
  /\ UNCHANGED canvasVars

GapNext == CreateObstacle

GapSpec == Init /\ [][GapNext]_vars

(***************************************************************************)
(* Vocabulary of the properties.                                           *)
(***************************************************************************)
Running == gameStarted /\ ~gameOver
\* the step is a frame / an input event
FrameStep == inputs' = inputs
InputStep == inputs' = inputs + 1
\* the step is a frame of the running game
RunningFrame == Running /\ FrameStep
\* the seed's height after this frame's physics step
YAfterPhysics == physicsY(seedY, seedVelocityY)
\* the pair of list obs that carries identity id
HasId(obs, id) == \E i \in 1..Len(obs) : obs[i].id = id
PairOf(obs, id) == obs[CHOOSE i \in 1..Len(obs) : obs[i].id = id]
\* the box of half-extent seedRadius around the seed at height sy
RadiusBox(sy) == Box(seedX, sy, seedRadius, seedRadius, seedRadius)
\* box b meets the top or the bottom block of pair o
MeetsPair(b, o) == intersectsBox(b, topBox(o)) \/ intersectsBox(b, bottomBox(o))

(***************************************************************************)
(* C1.  Once a boundary hit or an obstacle collision has been detected and *)
(* gameOver set, score is not incremented again, in that frame or in any   *)
(* later one, until resetGame runs.                                        *)
(***************************************************************************)
C1_ScoreStopsAtGameOver ==
  [][ /\ (RunningFrame /\ boundaryHit(YAfterPhysics)) => score' = score
      /\ (gameOver /\ FrameStep) => score' = score ]_vars

(***************************************************************************)
(* C2.  Original: every input event, in every game state, sets             *)
(* seedVelocityY to surgeStrength.                                         *)
(***************************************************************************)
C2_EveryInputSurges ==
  [][ InputStep => seedVelocityY' = surgeStrength ]_vars

(***************************************************************************)
(* C2, amended.  Every input event received while gameOver is false sets   *)
(* seedVelocityY to surgeStrength, whatever the velocity was before; an    *)
(* input event received while gameOver is true sets it to 0.               *)
(***************************************************************************)
C2_InputSurgesUnlessGameOver ==
  [][ InputStep =>
        seedVelocityY' = IF gameOver THEN 0 ELSE surgeStrength ]_vars

\* a surge has been applied in mid-flight
C2_Witness ==
  /\ Running /\ surges > 0
  /\ seedVelocityY = surgeStrength
  /\ seedY > 0

(***************************************************************************)
(* C3.  In a running frame, a seed that the physics step takes below       *)
(* seedMinY or above seedMaxY is clamped to that bound, its velocity set   *)
(* to 0 and gameOver set; a seed taken exactly onto a bound does not end   *)
(* the game by that; and seedMinY <= seed.position.y <= seedMaxY always.   *)
(***************************************************************************)
C3_Boundary ==
  /\ [](seedMinY <= seedY /\ seedY <= seedMaxY)
  /\ [][ RunningFrame =>
           /\ YAfterPhysics < seedMinY =>
                seedY' = seedMinY /\ seedVelocityY' = 0 /\ gameOver'
           /\ YAfterPhysics > seedMaxY =>
                seedY' = seedMaxY /\ seedVelocityY' = 0 /\ gameOver'
           /\ (YAfterPhysics = seedMinY \/ YAfterPhysics = seedMaxY) =>
                /\ seedY' = YAfterPhysics
                /\ seedVelocityY' = seedVelocityY - gravity
                /\ gameOver' = checkCollisions(obstacles', YAfterPhysics,
                                               rotationX, rotationY) ]_vars

\* the seed has been clamped to the upper bound
C3_Witness == gameOver /\ seedY = seedMaxY /\ seedVelocityY = 0

(***************************************************************************)
(* C4.  In a running frame in which no boundary was hit, gameOver is set   *)
(* if and only if, after the frame's movement and despawn, the box of      *)
(* half-extent seedRadius around the seed meets the top or bottom block of *)
(* a pair still in the list; nothing else sets gameOver.                   *)
(***************************************************************************)
C4_CollisionIffRadiusBox ==
  [][ /\ (RunningFrame /\ ~boundaryHit(YAfterPhysics)) =>
           ( gameOver' <=>
               \E i \in 1..Len(obstacles') :
                  MeetsPair(RadiusBox(seedY'), obstacles'[i]) )
      /\ (~gameOver /\ gameOver') => RunningFrame ]_vars

(***************************************************************************)
(* C5.  A pair is created at obstacleSpawnX; its two blocks always have    *)
(* the same x; in a running frame that x decreases by exactly              *)
(* obstacleSpeed * deltaTime; the pair leaves the list in the first frame  *)
(* that takes its x below obstacleDespawnX, and not before; so every pair  *)
(* in the list has obstacleDespawnX <= x <= obstacleSpawnX.                *)
(***************************************************************************)
C5_PairLifecycle ==
  /\ [](\A i \in 1..Len(obstacles) :
          /\ obstacles[i].topX = obstacles[i].bottomX
          /\ obstacleDespawnX <= obstacles[i].topX
          /\ obstacles[i].topX <= obstacleSpawnX)
  /\ [][ RunningFrame =>
           \* the pairs that were in the list
           /\ \A i \in 1..Len(obstacles) :
                LET o == obstacles[i]
                    x == o.topX - obstacleSpeed * framePeriod
                IN  IF x < obstacleDespawnX
                    THEN ~HasId(obstacles', o.id)
                    ELSE /\ HasId(obstacles', o.id)
                         /\ PairOf(obstacles', o.id).topX = x
                         /\ PairOf(obstacles', o.id).bottomX = x
           \* the pair this frame has created
           /\ \A j \in 1..Len(obstacles') :
                ~HasId(obstacles, obstacles'[j].id) =>
                   obstacles'[j].topX
                     = obstacleSpawnX - obstacleSpeed * framePeriod ]_vars

\* at four frames a second, a pair has crossed the view and left the list
\* while others are on their way
C5_Witness ==
  /\ framePeriod = 250 /\ Running
  /\ spawned > Len(obstacles) /\ Len(obstacles) > 0

(***************************************************************************)
(* C6.  In a running frame the velocity is first decreased by gravity and  *)
(* then added to the position, whatever deltaTime is; and once the game is *)
(* running and frames keep coming, gameOver eventually becomes true (the   *)
(* input events are finitely many).                                        *)
(***************************************************************************)
C6_GravityEndsGame ==
  /\ [][ (RunningFrame /\ ~boundaryHit(YAfterPhysics)) =>
           /\ seedVelocityY' = seedVelocityY - gravity
           /\ seedY' = seedY + seedVelocityY' ]_vars
  /\ (Running ~> gameOver)

\* a game that got a single input has ended on the lower bound
C6_Witness == gameOver /\ seedY = seedMinY /\ inputs = 1

(***************************************************************************)
(* Vocabulary of the canvas variant's properties.                          *)
(***************************************************************************)
\* str is empty or holds only white space
Blank(str) == \A i \in 1..Len(str) : str[i] = " "

C8_EverySpaceJumps ==
  (running /\ lastEvent = "space") => vy = jumpVelocity

(***************************************************************************)
(* C8, amended.  While the canvas variant runs, every frame adds gravity   *)
(* to the velocity and the velocity to the height, and stops the player on *)
(* the floor (y = 960, vy = 0) when that takes it below; a Space keydown   *)
(* gives the velocity -25 only if the player is on the floor (y >= 960),   *)
(* and changes nothing otherwise.                                          *)
(***************************************************************************)
C8_SpaceJumpsFromFloor ==
  [][ /\ lastEvent' = "space" =>
           /\ vy' = IF y >= canvasFloor THEN 0 - 50 ELSE vy
           /\ y' = y
      /\ (running /\ lastEvent' = "frame") =>
           IF y + vy + canvasGravity > canvasFloor
           THEN y' = canvasFloor /\ vy' = 0
           ELSE vy' = vy + canvasGravity /\ y' = y + vy' ]_vars

\* a Space keydown in the air has been ignored
C8_Witness ==
  /\ running /\ lastEvent = "space"
  /\ y < canvasFloor /\ vy # 0 - 50

(***************************************************************************)
(* C9.  A pair is scored once: its passed flag is set, and score goes up   *)
(* by one, in the first running frame that leaves seed.position.x strictly *)
(* greater than the pair's x, and the flag is never cleared.  So a pair of *)
(* the list has its flag set exactly if it is left of the seed; a frame    *)
(* adds to score the number of flags it sets; score never decreases except *)
(* by resetGame; and score is the number of pairs spawned since the last   *)
(* reset that have been flagged, at most the number spawned.               *)
(***************************************************************************)
\* the pairs of list obs whose flag is not set
Unpassed(obs) == { i \in 1..Len(obs) : ~obs[i].passed }
\* the pairs a frame flags: those already in the list, and the one it creates
NewlyPassed ==
  Cardinality({ i \in Unpassed(obstacles) :
                  seedX > obstacles[i].topX - obstacleSpeed * framePeriod })
  + Cardinality({ j \in 1..Len(obstacles') :
                    /\ ~HasId(obstacles, obstacles'[j].id)
                    /\ obstacles'[j].passed })

C9_ScoredOnce ==
  /\ [](/\ \A i \in 1..Len(obstacles) :
             obstacles[i].passed <=> seedX > obstacles[i].topX
        /\ score = spawned - Cardinality(Unpassed(obstacles))
        /\ score <= spawned)
  /\ [][ /\ RunningFrame => score' = score + NewlyPassed
         /\ \A i \in 1..Len(obstacles) :
              (obstacles[i].passed /\ HasId(obstacles', obstacles[i].id)) =>
                 PairOf(obstacles', obstacles[i].id).passed
         /\ ~(gameOver /\ InputStep) => score' >= score ]_vars

\* two pairs have been scored, the first has left the list, and a third is
\* not yet scored
C9_Witness ==
  /\ score = 2 /\ spawned = 3 /\ Len(obstacles) = 2
  /\ obstacles[1].passed /\ ~obstacles[2].passed

(***************************************************************************)
(* C10.  Once a pair's passed flag is set, the seed's bounding box can no  *)
(* longer meet the top or bottom block of that pair, so a scored pair      *)
(* never causes a collision game-over.                                     *)
(***************************************************************************)
C10_ScoredPairNeverHit ==
  \A i \in 1..Len(obstacles) :
     obstacles[i].passed => ~MeetsPair(RadiusBox(seedY), obstacles[i])

(***************************************************************************)
(* C11.  Restart takes two inputs.  An input event received while gameOver *)
(* is true only runs resetGame: after it score = 0, the list is empty, the *)
(* seed is at y = 0 with velocity 0, gameOver and gameStarted are false    *)
(* and timeSinceLastSpawn = spawnInterval, so it neither starts the game   *)
(* nor applies the surge.  While the game is not started a frame advances  *)
(* nothing, and the next input event starts the game.                      *)
(***************************************************************************)
C11_RestartTakesTwoInputs ==
  [][ /\ (gameOver /\ InputStep) =>
           /\ score' = 0
           /\ obstacles' = << >>
           /\ seedY' = 0
           /\ seedVelocityY' = 0
           /\ ~gameOver'
           /\ ~gameStarted'
           /\ timeSinceLastSpawn' = spawnInterval
      /\ (~gameStarted /\ FrameStep) =>
           UNCHANGED <<seedY, seedVelocityY, score, obstacles,
                       timeSinceLastSpawn, gameStarted, gameOver>>
      /\ (~gameStarted /\ InputStep) =>
           gameStarted' /\ seedVelocityY' = surgeStrength ]_vars

\* a game has ended, the second input has reset it and the third has started
\* the next one
C11_Witness ==
  /\ inputs = 3 /\ surges = 0
  /\ Running /\ seedVelocityY = surgeStrength
  /\ rotationY > 0

(***************************************************************************)
(* C12.  Spawn timing.  resetGame leaves the timer at spawnInterval, so    *)
(* the first running frame of a game spawns a pair.  A running frame       *)
(* spawns exactly if the timer plus this frame's deltaTime reaches         *)
(* spawnInterval, and then resets the timer to 0; otherwise the timer      *)
(* keeps the sum.  A frame spawns at most one pair, and two pairs of the   *)
(* list are at least the distance of spawnInterval of travel apart.        *)
(***************************************************************************)
C12_SpawnTiming ==
  /\ [](/\ spawned = 0 => timeSinceLastSpawn = spawnInterval
        /\ 0 <= timeSinceLastSpawn /\ timeSinceLastSpawn <= spawnInterval
        /\ \A i \in 1..(Len(obstacles) - 1) :
             obstacles[i + 1].topX - obstacles[i].topX
               >= obstacleSpeed * spawnInterval)
  /\ [][ RunningFrame =>
           /\ spawned = 0 => spawned' = 1
           /\ IF timeSinceLastSpawn + framePeriod >= spawnInterval
              THEN /\ spawned' = spawned + 1
                   /\ Len(obstacles') >= 1
                   /\ obstacles'[Len(obstacles')].id = spawned'
                   /\ timeSinceLastSpawn' = 0
              ELSE /\ spawned' = spawned
                   /\ timeSinceLastSpawn' = timeSinceLastSpawn + framePeriod
         ]_vars

\* at four frames a second, the second pair of a game has just been spawned
C12_Witness ==
  /\ framePeriod = 250 /\ gameStarted
  /\ spawned = 2 /\ timeSinceLastSpawn = 0
  /\ Len(obstacles) = 2

C14_StateMachine ==
  /\ [](gameOver => gameStarted)
  /\ [][ /\ (gameStarted' # gameStarted \/ gameOver' # gameOver) =>
              \/ /\ ~gameStarted /\ ~gameOver /\ InputStep
                 /\ gameStarted' /\ ~gameOver'
              \/ /\ Running /\ FrameStep
                 /\ gameStarted' /\ gameOver'
              \/ /\ gameStarted /\ gameOver /\ InputStep
                 /\ ~gameStarted' /\ ~gameOver'
         /\ (InputStep /\ ~gameStarted /\ ~gameOver) => Running'
         /\ (InputStep /\ gameOver) => (~gameStarted' /\ ~gameOver')
         /\ (InputStep /\ Running) => Running'
         /\ FrameStep => /\ gameStarted' = gameStarted
                         /\ gameOver => gameOver' ]_vars

\* the second game of a session has ended
C14_Witness ==
  /\ inputs = 3
  /\ gameStarted /\ gameOver
  /\ spawned >= 1

(***************************************************************************)
(* C15.  The world is frozen outside Running.  A frame that starts with    *)
(* the game not started, or with gameOver already true, leaves the seed's  *)
(* height and velocity, the score, the spawn timer and the obstacles list  *)
(* (every pair's x and passed flag included) as they were.                 *)
(***************************************************************************)
C15_FrozenOutsideRunning ==
  [][ (FrameStep /\ ~Running) =>
        /\ UNCHANGED <<seedY, seedVelocityY, score, timeSinceLastSpawn>>
        /\ Len(obstacles') = Len(obstacles)
        /\ \A i \in 1..Len(obstacles) :
             /\ obstacles'[i].topX = obstacles[i].topX
             /\ obstacles'[i].bottomX = obstacles[i].bottomX
             /\ obstacles'[i].passed = obstacles[i].passed
             /\ obstacles'[i] = obstacles[i] ]_vars

\* a game that ended on the lower boundary with a pair on its way, the
\* frame of the end behind it
C15_Witness ==
  /\ gameOver /\ ~seedVisible
  /\ seedY = seedMinY
  /\ Len(obstacles) >= 1
  /\ obstacles[1].topX < obstacleSpawnX

(***************************************************************************)
(* C16.  UI consistency.  After initialisation and after every frame and   *)
(* every input event: the start message is displayed exactly when the      *)
(* game is not started and not over, the game-over message exactly when    *)
(* gameOver is true, never both, and the seed is visible exactly when      *)
(* gameOver is false.                                                      *)
(***************************************************************************)
C16_UiConsistent ==
  /\ startMessageDisplay \in {"block", "none"}
  /\ gameOverMessageDisplay \in {"block", "none"}
  /\ startMessageDisplay = "block" <=> (~gameStarted /\ ~gameOver)
  /\ gameOverMessageDisplay = "block" <=> gameOver
  /\ ~(startMessageDisplay = "block" /\ gameOverMessageDisplay = "block")
  /\ seedVisible <=> ~gameOver

\* back at the start screen after a game that ended
C16_Witness ==
  /\ inputs = 2
  /\ ~gameStarted /\ ~gameOver
  /\ startMessageDisplay = "block"
  /\ gameOverMessageDisplay = "none"
  /\ seedVisible
  /\ rotationY > 0

====
